---- MODULE Spec2Model ----
(***************************************************************************)
(* Model of the content repository of huni-portfolio: src/lib/projects.ts  *)
(* (getProjects, getProjectBySlug, getProjectMetadata) over a document     *)
(* store on disk.  The store is read-only for the application; a request   *)
(* calls one operation, receives its outcome and finishes.                 *)
(* The Quiz component of src/components/quiz.tsx is modelled beside it,    *)
(* under specifications of its own, and so are the project page, the       *)
(* MDXContent renderer, ExpandableSection, Counter, PostsWithSearch and    *)
(* the contact form with its server action sendEmail.                      *)
(***************************************************************************)
EXTENDS Integers, Sequences, FiniteSets, TLC

VARIABLES dirExists, entries, raw, pc, call, result

vars == <<dirExists, entries, raw, pc, call, result>>

\* one Quiz instance: its props, its three useState cells as the next render
\* reads them, the render its handlers were created by, the last handler
\* call, and the record of how the user has advanced
VARIABLES questions, currentQuestion, userAnswers, isQuizCompleted,
          rendered, qcall, batch, advances, disciplined

quizVars == <<questions, currentQuestion, userAnswers, isQuizCompleted,
              rendered, qcall, batch, advances, disciplined>>

\* MDXContent: the module-level components map, the last render (its props,
\* the caller's components object after it, its output) and the first one
VARIABLES components, mdx, mdxFirst

mdxVars == <<components, mdx, mdxFirst>>

\* one ExpandableSection: its props, its useState cell as the next render
\* reads it, the render its click handler was created by, the clicks so far
\* and those since that render
VARIABLES sectionProps, isExpanded, sectionRendered, clicks, sectionPending

sectionVars == <<sectionProps, isExpanded, sectionRendered, clicks,
                 sectionPending>>

\* one PostsWithSearch: its posts prop, its query state and its render
VARIABLES posts, query, postsRendered

postsVars == <<posts, query, postsRendered>>

\* one Counter: its useState cell as the next render reads it, the render
\* its handlers were created by, the clicks on each button so far and the
\* clicks since that render
VARIABLES count, counterRendered, increments, decrements, counterPending

counterVars == <<count, counterRendered, increments, decrements,
                 counterPending>>

\* the contact form and its server action: the inputs ContactFormSchema
\* accepts, the last call of sendEmail (its input, what the mail provider
\* did, its outcome) and what the form shows
VARIABLES schema, mail, form

mailVars == <<schema, mail, form>>

\* the client components and server code beside the store and the Quiz
uiVars == <<mdxVars, sectionVars, postsVars, counterVars, mailVars>>

allVars == <<vars, quizVars, uiVars>>

(* ------------------------------ bounds -------------------------------- *)

\* most entries the collection directory holds
MaxFiles == 3
\* largest limit a caller passes to getProjects
MaxLimit == 3

(* --------------------------- small helpers ---------------------------- *)

Min(a, b) == IF a < b THEN a ELSE b

Range(s) == {s[i] : i \in 1..Len(s)}

Prefix(s, k) == SubSeq(s, 1, Min(k, Len(s)))

IsInjective(s) == \A i, j \in 1..Len(s) : s[i] = s[j] => i = j

(* ------------------------ documents on disk --------------------------- *)

\* one line of a document: a '---' delimiter, a 'key: value' line or text
Delim == [kind |-> "delim", key |-> "", value |-> ""]
KV(k, v) == [kind |-> "kv", key |-> k, value |-> v]
Text(t) == [kind |-> "text", key |-> "", value |-> t]

DocPlain == <<Text("Hello")>>
Doc2023 == <<Delim, KV("title", "Cryptoverse"), KV("date", "2023-01-12"),
             Delim, Text("Hello")>>
Doc2024 == <<Delim, KV("date", "2024-01-01"), Delim, Text("Body")>>
Doc2024Z == <<Delim, KV("date", "2024-01-01T00:00:00.000Z"),
              KV("slug", "custom"), Delim>>
DocBadDate == <<Delim, KV("title", "T"), KV("date", "soon"), Delim,
                Text("Hello")>>
Doc2025 == <<Delim, KV("title", "T"), KV("summary", "S"),
             KV("author", "Erik Nguyen"), KV("image", "/projects/x.webp"),
             KV("date", "2025-02-03"), Delim, Text("Hello"), Text("World")>>

Docs == {DocPlain, Doc2023, Doc2024, Doc2024Z, DocBadDate, Doc2025}

\* what readdirSync may list: documents, a file without extension, a file
\* of another extension
FileNames == {"a.mdx", "b.mdx", "a", "a.md"}

\* a directory entry is a readable file with its lines, or an entry that
\* readFileSync cannot read (a sub-directory, a permission failure)
Unreadable == [readable |-> FALSE, lines |-> <<>>]
RawFiles == {[readable |-> TRUE, lines |-> d] : d \in Docs} \cup {Unreadable}

\* rootDirectory = <cwd>/content/projects, as path segments below cwd
rootDirectory == <<"content", "projects">>

\* a file of the repository outside rootDirectory (content/posts)
OutsideFiles == {<<"content", "posts", "sql-for-beginners.mdx">>}
DocSql == <<Delim, KV("title", "SQL for Beginners"),
            KV("summary", "A comprehensive guide to SQL"),
            KV("author", "Erik Nguyen"), KV("date", "2024-09-14"), Delim,
            Text("# SQL for Beginners")>>
OutsideRaw == [readable |-> TRUE, lines |-> DocSql]

(* ------------------------------ path.join ----------------------------- *)

RECURSIVE SplitFrom(_, _, _)
\* the segments of s from character i on, the segment being read having
\* started at character start
SplitFrom(s, i, start) ==
  IF i > Len(s) THEN <<SubSeq(s, start, Len(s))>>
  ELSE IF SubSeq(s, i, i) = "/"
  THEN <<SubSeq(s, start, i - 1)>> \o SplitFrom(s, i + 1, i + 1)
  ELSE SplitFrom(s, i + 1, start)

RECURSIVE Normalize(_, _)
\* path.normalize: drops '' and '.', lets '..' remove the segment before it
Normalize(segs, acc) ==
  IF segs = <<>> THEN acc
  ELSE LET h == Head(segs) IN
       IF h = "" \/ h = "." THEN Normalize(Tail(segs), acc)
       ELSE IF h = ".." THEN
         Normalize(Tail(segs),
                   IF acc = <<>> THEN acc ELSE SubSeq(acc, 1, Len(acc) - 1))
       ELSE Normalize(Tail(segs), Append(acc, h))

pathJoin(dir, name) == Normalize(dir \o SplitFrom(name, 1, 1), <<>>)

(* ---------------------------- fs.* calls ------------------------------ *)

\* fs.readFileSync(path): the lines of the file, or a throw
readFileSync(path) ==
  IF /\ dirExists
     /\ Len(path) = Len(rootDirectory) + 1
     /\ SubSeq(path, 1, Len(rootDirectory)) = rootDirectory
     /\ path[Len(path)] \in Range(entries)
  THEN LET f == raw[path[Len(path)]] IN
       IF f.readable THEN [threw |-> FALSE, lines |-> f.lines]
       ELSE [threw |-> TRUE, lines |-> <<>>]
  ELSE IF path \in OutsideFiles
  THEN [threw |-> FALSE, lines |-> OutsideRaw.lines]
  ELSE [threw |-> TRUE, lines |-> <<>>]

\* fs.readdirSync(rootDirectory): the entry names, or a throw
readdirSync ==
  IF dirExists THEN [threw |-> FALSE, files |-> entries]
  ELSE [threw |-> TRUE, files |-> <<>>]

(* ------------------------------ matter() ------------------------------ *)

EmptyData == [k \in {} |-> ""]

RECURSIVE closeIndex(_, _)
\* index of the first '---' line at or after i, Len + 1 when there is none
closeIndex(lines, i) ==
  IF i > Len(lines) THEN Len(lines) + 1
  ELSE IF lines[i] = Delim THEN i
  ELSE closeIndex(lines, i + 1)

\* the mapping a block of 'key: value' lines denotes
parseBlock(block) ==
  LET keys == {block[i].key : i \in {j \in 1..Len(block) : block[j].kind = "kv"}}
  IN [k \in keys |->
        block[CHOOSE i \in 1..Len(block) :
                 block[i].kind = "kv" /\ block[i].key = k].value]

\* matter(fileContents): frontmatter data and the remaining content
matter(lines) ==
  IF lines = <<>> \/ lines[1] # Delim
  THEN [data |-> EmptyData, content |-> lines]
  ELSE LET c == closeIndex(lines, 2) IN
       [data |-> parseBlock(SubSeq(lines, 2, c - 1)),
        content |-> SubSeq(lines, c + 1, Len(lines))]

(* --------------------------- new Date(string) ------------------------- *)

InvalidDate == [valid |-> FALSE, time |-> 0]

Digit(c) ==
  CASE c = "0" -> 0 [] c = "1" -> 1 [] c = "2" -> 2 [] c = "3" -> 3
    [] c = "4" -> 4 [] c = "5" -> 5 [] c = "6" -> 6 [] c = "7" -> 7
    [] c = "8" -> 8 [] c = "9" -> 9 [] OTHER -> -1

RECURSIVE Number(_, _, _)
\* the decimal number in s[i..j], -1 when a character is no digit
Number(s, i, j) ==
  IF i > j THEN 0
  ELSE LET d == Digit(SubSeq(s, j, j))
           r == Number(s, i, j - 1)
       IN IF d < 0 \/ r < 0 THEN -1 ELSE 10 * r + d

\* days from 1970-01-01 to the civil date y-m-d
DaysFromCivil(y, m, d) ==
  LET yy == IF m <= 2 THEN y - 1 ELSE y
      era == yy \div 400
      yoe == yy - era * 400
      mp == IF m > 2 THEN m - 3 ELSE m + 9
      doy == (153 * mp + 2) \div 5 + d - 1
      doe == yoe * 365 + yoe \div 4 - yoe \div 100 + doy
  IN era * 146097 + doe - 719468

\* new Date(s) for the ISO forms 'YYYY-MM-DD' and 'YYYY-MM-DDT00:00:00.000Z'
\* (both UTC midnight, so the time value is kept in days); any other string
\* here is an Invalid Date
newDate(s) ==
  LET dateOk == /\ Len(s) >= 10
                /\ SubSeq(s, 5, 5) = "-"
                /\ SubSeq(s, 8, 8) = "-"
                /\ \/ Len(s) = 10
                   \/ SubSeq(s, 11, Len(s)) = "T00:00:00.000Z"
  IN IF ~dateOk THEN InvalidDate
     ELSE LET y == Number(s, 1, 4)
              m == Number(s, 6, 7)
              d == Number(s, 9, 10)
          IN IF y < 0 \/ m < 1 \/ m > 12 \/ d < 1 \/ d > 31 THEN InvalidDate
             ELSE [valid |-> TRUE, time |-> DaysFromCivil(y, m, d)]

\* x < y on two Dates: false whenever either is an Invalid Date (NaN)
DateLess(x, y) == x.valid /\ y.valid /\ x.time < y.time

(* --------------------------- src/lib/projects.ts ---------------------- *)

\* a variant of stripMdx whose pattern is /\.mdx?$/: '.md' is removed too
stripMdxOrMd(fileName) ==
  IF Len(fileName) >= 4
     /\ SubSeq(fileName, Len(fileName) - 3, Len(fileName)) = ".mdx"
  THEN SubSeq(fileName, 1, Len(fileName) - 4)
  ELSE IF Len(fileName) >= 3
          /\ SubSeq(fileName, Len(fileName) - 2, Len(fileName)) = ".md"
  THEN SubSeq(fileName, 1, Len(fileName) - 3)
  ELSE fileName

\* fileName.replace(/\.mdx$/, '')
stripMdx(fileName) ==
  IF Len(fileName) >= 4
     /\ SubSeq(fileName, Len(fileName) - 3, Len(fileName)) = ".mdx"
  THEN SubSeq(fileName, 1, Len(fileName) - 4)
  ELSE fileName

\* a variant of withSlug that spreads in the other order, { slug, ...data }:
\* a frontmatter field slug wins over the derived one
slugThenData(data, slug) ==
  [k \in DOMAIN data \cup {"slug"} |->
     IF k \in DOMAIN data THEN data[k] ELSE slug]

\* { ...data, slug }
withSlug(data, slug) ==
  [k \in DOMAIN data \cup {"slug"} |-> IF k = "slug" THEN slug ELSE data[k]]

\* a.date ?? ''
dateOrEmpty(a) == IF "date" \in DOMAIN a THEN a["date"] ELSE ""

getProjectMetadata(fileName) ==
  LET slug == stripMdx(fileName)
      filePath == pathJoin(rootDirectory, fileName)
      fileContents == readFileSync(filePath)
  IN IF fileContents.threw THEN [threw |-> TRUE, value |-> EmptyData]
     ELSE [threw |-> FALSE,
           value |-> withSlug(matter(fileContents.lines).data, slug)]

\* the comparator of getProjects' sort
compareFn(a, b) ==
  IF DateLess(newDate(dateOrEmpty(a)), newDate(dateOrEmpty(b))) THEN 1 ELSE -1

(* Array.prototype.sort(compareFn) as the runtime performs it on an array   *)
(* shorter than 64 elements: the leading run is counted (and reversed when  *)
(* it descends), then the rest is inserted by binary insertion.  Positions  *)
(* are 0-based as in the runtime; arr[i + 1] is its element i.              *)

RECURSIVE runEnd(_, _, _)
\* length of the run that starts at element 0, idx being the next candidate
runEnd(arr, idx, isDescending) ==
  IF idx >= Len(arr) THEN idx
  ELSE LET order == compareFn(arr[idx + 1], arr[idx]) IN
       IF (isDescending /\ order >= 0) \/ (~isDescending /\ order < 0)
       THEN idx
       ELSE runEnd(arr, idx + 1, isDescending)

reverseRange(arr, n) ==
  [i \in 1..Len(arr) |-> IF i <= n THEN arr[n + 1 - i] ELSE arr[i]]

\* <<array after the leading run is made ascending, length of that run>>
countAndMakeRun(arr) ==
  IF Len(arr) = 1 THEN <<arr, 1>>
  ELSE LET isDescending == compareFn(arr[2], arr[1]) < 0
           runLength == runEnd(arr, 2, isDescending)
       IN <<IF isDescending THEN reverseRange(arr, runLength) ELSE arr,
            runLength>>

RECURSIVE binarySearch(_, _, _, _)
\* the position in [left, right) where pivot is inserted
binarySearch(arr, pivot, left, right) ==
  IF left >= right THEN left
  ELSE LET mid == left + (right - left) \div 2 IN
       IF compareFn(pivot, arr[mid + 1]) < 0
       THEN binarySearch(arr, pivot, left, mid)
       ELSE binarySearch(arr, pivot, mid + 1, right)

\* element start moved to position left, those between shifted right by one
insertAt(arr, start, left) ==
  [i \in 1..Len(arr) |->
     IF i - 1 < left \/ i - 1 > start THEN arr[i]
     ELSE IF i - 1 = left THEN arr[start + 1]
     ELSE arr[i - 1]]

RECURSIVE binaryInsertionSort(_, _)
binaryInsertionSort(arr, start) ==
  IF start >= Len(arr) THEN arr
  ELSE binaryInsertionSort(
         insertAt(arr, start, binarySearch(arr, arr[start + 1], 0, start)),
         start + 1)

sort(arr) ==
  IF Len(arr) < 2 THEN arr
  ELSE LET run == countAndMakeRun(arr) IN binaryInsertionSort(run[1], run[2])

\* the optional parameter limit: not passed, or a number
NoLimit == [given |-> FALSE, n |-> 0]
Limit(k) == [given |-> TRUE, n |-> k]

\* if (limit): undefined and 0 are falsy
truthy(limit) == limit.given /\ limit.n # 0

getProjects(limit) ==
  LET files == readdirSync
      mapped == [i \in 1..Len(files.files) |->
                   getProjectMetadata(files.files[i])]
  IN IF files.threw \/ \E i \in 1..Len(mapped) : mapped[i].threw
     THEN [threw |-> TRUE, value |-> <<>>]
     ELSE LET projects == sort([i \in 1..Len(mapped) |-> mapped[i].value])
          IN [threw |-> FALSE,
              value |-> IF truthy(limit) THEN SubSeq(projects, 1,
                                                Min(limit.n, Len(projects)))
                        ELSE projects]

\* a variant of the try block that returns the file's text, frontmatter
\* block included, as the content
tryGetProjectBySlugWholeFile(slug) ==
  LET filePath == pathJoin(rootDirectory, slug \o ".mdx")
      fileContents == readFileSync(filePath)
  IN IF fileContents.threw
     THEN [threw |-> TRUE, metadata |-> EmptyData, content |-> <<>>]
     ELSE LET m == matter(fileContents.lines) IN
          [threw |-> FALSE, metadata |-> withSlug(m.data, slug),
           content |-> fileContents.lines]

\* the try block of getProjectBySlug
tryGetProjectBySlug(slug) ==
  LET filePath == pathJoin(rootDirectory, slug \o ".mdx")
      fileContents == readFileSync(filePath)
  IN IF fileContents.threw
     THEN [threw |-> TRUE, metadata |-> EmptyData, content |-> <<>>]
     ELSE LET m == matter(fileContents.lines) IN
          [threw |-> FALSE, metadata |-> withSlug(m.data, slug),
           content |-> m.content]

\* a variant of getProjectBySlug without the catch: the error of the try
\* block reaches the caller
getProjectBySlugNoCatch(slug) ==
  LET t == tryGetProjectBySlug(slug) IN
  [threw |-> t.threw, isNull |-> FALSE, metadata |-> t.metadata,
   content |-> t.content]

\* catch (error) { return null }
getProjectBySlug(slug) ==
  LET t == tryGetProjectBySlug(slug) IN
  IF t.threw
  THEN [threw |-> FALSE, isNull |-> TRUE, metadata |-> EmptyData,
        content |-> <<>>]
  ELSE [threw |-> FALSE, isNull |-> FALSE, metadata |-> t.metadata,
        content |-> t.content]

(* ------------------- components and server code at rest -------------- *)

\* const components = { code: Code, Counter, Alert, ... }: each name with
\* the implementation it is bound to
BuiltIn ==
  [k \in {"code", "Counter", "Alert", "Quiz", "ExpandableSection", "Card",
          "CardContent", "CardDescription", "CardFooter", "CardHeader",
          "CardTitle"} |-> IF k = "code" THEN "Code" ELSE k]

NoComponents == [given |-> FALSE, map |-> EmptyData]
NoMdx == [rendered |-> FALSE, n |-> 0, source |-> <<>>,
          given |-> NoComponents, after |-> NoComponents, threw |-> FALSE,
          output |-> <<>>]

\* the module of MDXContent is loaded and nothing has been rendered
MdxIdle ==
  /\ components = BuiltIn
  /\ mdx = NoMdx
  /\ mdxFirst = NoMdx

NoSectionProps == [title |-> "", defaultExpanded |-> <<>>]
NoSectionRender == [mounted |-> FALSE, isExpanded |-> FALSE, icon |-> "",
                    ariaControls |-> "", contentId |-> "", visible |-> FALSE]

\* no ExpandableSection is on the page
SectionAbsent ==
  /\ sectionProps = NoSectionProps
  /\ isExpanded = FALSE
  /\ sectionRendered = NoSectionRender
  /\ clicks = 0
  /\ sectionPending = 0

NoPostsRender == [mounted |-> FALSE, isFiltered |-> FALSE,
                  filteredPosts |-> <<>>]

\* no PostsWithSearch is on the page
PostsAbsent ==
  /\ posts = <<>>
  /\ query = ""
  /\ postsRendered = NoPostsRender

NoCounterRender == [mounted |-> FALSE, count |-> 0]

\* no Counter is on the page
CounterAbsent ==
  /\ count = 0
  /\ counterRendered = NoCounterRender
  /\ increments = 0
  /\ decrements = 0
  /\ counterPending = 0

\* defaultValues of the form
NoInput == [name |-> "", email |-> "", message |-> ""]
NoResponse == [threw |-> FALSE, data |-> FALSE, error |-> FALSE]
NoOutcome == [threw |-> FALSE, success |-> FALSE, hasError |-> FALSE,
              error |-> ""]
NoMail == [called |-> FALSE, data |-> NoInput, sends |-> 0,
           response |-> NoResponse, outcome |-> NoOutcome]
NoForm == [values |-> NoInput, errors |-> FALSE, toast |-> "none"]

\* the contact form is untouched and sendEmail has not been called
MailIdle ==
  /\ schema = {}
  /\ mail = NoMail
  /\ form = NoForm

UiIdle ==
  MdxIdle /\ SectionAbsent /\ PostsAbsent /\ CounterAbsent /\ MailIdle

(* ------------------------------ the system ---------------------------- *)

\* identifiers a page request may ask for
Slugs == {"a", "b", "a.md", "zzz", "../posts/sql-for-beginners", "a.mdx"}

Limits == {NoLimit} \cup {Limit(k) : k \in 0..MaxLimit}

NoCall == [op |-> "none", slug |-> "", fileName |-> "", limit |-> NoLimit]
NoResult == [threw |-> FALSE]

\* the sequences of at most MaxFiles distinct entry names
Listings ==
  UNION {{s \in [1..n -> FileNames] : IsInjective(s)} : n \in 0..MaxFiles}

Init ==
  /\ dirExists \in BOOLEAN
  /\ entries \in Listings
  /\ dirExists = FALSE => entries = <<>>
  /\ raw \in [Range(entries) -> RawFiles]
  /\ pc = "idle"
  /\ call = NoCall
  /\ result = NoResult

CallGetProjects ==
  /\ pc = "idle"
  /\ \E limit \in Limits :
       /\ call' = [NoCall EXCEPT !.op = "getProjects", !.limit = limit]
       /\ result' = getProjects(limit)
  /\ pc' = "returned"
  /\ UNCHANGED <<dirExists, entries, raw>>
  /\ UNCHANGED <<quizVars, uiVars>>

CallGetProjectBySlug ==
  /\ pc = "idle"
  /\ \E slug \in Slugs :
       /\ call' = [NoCall EXCEPT !.op = "getProjectBySlug", !.slug = slug]
       /\ result' = getProjectBySlug(slug)
  /\ pc' = "returned"
  /\ UNCHANGED <<dirExists, entries, raw>>
  /\ UNCHANGED <<quizVars, uiVars>>

CallGetProjectMetadata ==
  /\ pc = "idle"
  /\ \E fileName \in FileNames :
       /\ call' = [NoCall EXCEPT !.op = "getProjectMetadata",
                                 !.fileName = fileName]
       /\ result' = getProjectMetadata(fileName)
  /\ pc' = "returned"
  /\ UNCHANGED <<dirExists, entries, raw>>
  /\ UNCHANGED <<quizVars, uiVars>>

\* the caller has consumed the outcome; the request is over
Return ==
  /\ pc = "returned"
  /\ pc' = "idle"
  /\ call' = NoCall
  /\ result' = NoResult
  /\ UNCHANGED <<dirExists, entries, raw>>
  /\ UNCHANGED <<quizVars, uiVars>>

Next ==
  \/ CallGetProjects
  \/ CallGetProjectBySlug
  \/ CallGetProjectMetadata
  \/ Return

\* no Quiz is mounted while the repository is exercised
NotRendered ==
  [kind |-> "none", currentQuestion |-> 0, showResult |-> FALSE,
   isLastQuestion |-> FALSE, score |-> 0]
NoQuizCall == [op |-> "none", index |-> 0]

QuizAbsent ==
  /\ questions = <<>>
  /\ currentQuestion = 0
  /\ userAnswers = <<>>
  /\ isQuizCompleted = FALSE
  /\ rendered = NotRendered
  /\ qcall = NoQuizCall
  /\ batch = 0
  /\ advances = 0
  /\ disciplined = TRUE

SpecInit == Init /\ QuizAbsent /\ UiIdle

Spec == SpecInit /\ [][Next]_allVars

TypeOK ==
  /\ pc \in {"idle", "returned"}
  /\ dirExists \in BOOLEAN
  /\ IsInjective(entries)
  /\ Len(entries) <= MaxFiles

(* ------------------------------ the claims ---------------------------- *)

Returned(op) == pc = "returned" /\ call.op = op

\* date(A) >= date(B), an absent or unparseable date being earlier than
\* every present date
DateGeq(A, B) ==
  LET dA == newDate(dateOrEmpty(A))
      dB == newDate(dateOrEmpty(B))
  IN ~dB.valid \/ (dA.valid /\ dA.time >= dB.time)

\* C1: every listing getProjects() returns is ordered by date descending,
\* a record without a parseable date counting as earlier than any dated one.
\* The code contradicts it: [2024-01-01, no date, 2025-02-03] is returned
\* as [2025-02-03, no date, 2024-01-01].
C1_SortedByDateDescending ==
  (Returned("getProjects") /\ ~result.threw) =>
    \A i, j \in 1..Len(result.value) :
      i < j => DateGeq(result.value[i], result.value[j])

\* C2: the comparator of the sort is a strict order: it never puts two
\* records of a listing each before the other, and it is transitive.
\* The code contradicts it: for equal dates, or when a date is missing,
\* compareFn(a, b) and compareFn(b, a) are both -1.
C2_ComparatorStrictOrder ==
  (Returned("getProjects") /\ ~result.threw) =>
    LET v == result.value IN
    /\ \A i, j \in 1..Len(v) :
         i # j => ~(compareFn(v[i], v[j]) < 0 /\ compareFn(v[j], v[i]) < 0)
    /\ \A i, j, k \in 1..Len(v) :
         (compareFn(v[i], v[j]) < 0 /\ compareFn(v[j], v[k]) < 0)
           => compareFn(v[i], v[k]) < 0

\* C3: getProjects(k) returns exactly min(k, n) records, the first min(k, n)
\* of the unlimited listing, for every k >= 0.  The code contradicts it for
\* k = 0, where the whole listing is returned.
C3_LimitIsPrefix ==
  (Returned("getProjects") /\ call.limit.given /\ ~result.threw) =>
    /\ Len(result.value) = Min(call.limit.n, Len(entries))
    /\ result.value = Prefix(getProjects(NoLimit).value, call.limit.n)

\* C4: getProjects(0) returns the empty sequence and getProjects() the
\* full one.  The code contradicts the first half: 0 is falsy in
\* 'if (limit)', so the full listing is returned.
C4_ZeroLimitEmpty ==
  (Returned("getProjects") /\ ~result.threw) =>
    /\ call.limit = Limit(0) => result.value = <<>>
    /\ ~call.limit.given => Len(result.value) = Len(entries)

\* the identifiers of the documents of the collection
DerivedIdentifiers == {stripMdx(f) : f \in Range(entries)}

\* C5: every identifier getProjects() lists is found by getProjectBySlug
\* with slug = id and the listed metadata, and an identifier no document
\* derives yields null.  The code contradicts it: an entry 'a.md' is listed
\* as 'a.md' and looked up as 'a.md.mdx'.
C5_LookupFindsListed ==
  /\ (Returned("getProjects") /\ ~call.limit.given /\ ~result.threw) =>
       \A i \in 1..Len(result.value) :
         LET id == result.value[i]["slug"]
             r == getProjectBySlug(id)
         IN ~r.isNull /\ r.metadata["slug"] = id
            /\ r.metadata = result.value[i]
  /\ (Returned("getProjectBySlug") /\ call.slug \notin DerivedIdentifiers) =>
       result.isNull

\* the store holds no file at the path a lookup of slug reads
NoDocumentAt(slug) ==
  LET p == pathJoin(rootDirectory, slug \o ".mdx") IN
  /\ p \notin OutsideFiles
  /\ ~(dirExists /\ \E f \in Range(entries) : p = rootDirectory \o <<f>>)

OtherFailure(slug) ==
  \/ ~dirExists
  \/ \E f \in Range(entries) : f = slug \o ".mdx" /\ ~raw[f].readable

\* C7: a failure of getProjectBySlug other than an unmatched identifier
\* reaches the caller as an error, distinguishable from not-found.  The
\* code contradicts it: the catch-all returns null for every failure.
C7_FailurePropagates ==
  (Returned("getProjectBySlug") /\ OtherFailure(call.slug)) =>
    result.threw /\ ~result.isNull

ReadableEntries == {f \in Range(entries) : raw[f].readable}

\* C8: when a document cannot be read, getProjects() skips it and returns
\* the records of all the others.  The code contradicts it: the read error
\* of one document fails the whole listing.
C8_UnreadableSkipped ==
  (Returned("getProjects") /\ ~call.limit.given /\ dirExists) =>
    /\ ~result.threw
    /\ Len(result.value) = Cardinality(ReadableEntries)
    /\ \A f \in ReadableEntries :
         \E i \in 1..Len(result.value) :
           result.value[i] = getProjectMetadata(f).value

\* C9 as claimed: the slugs of a listing are pairwise distinct for every set
\* of distinct filenames.  Entries 'a' and 'a.mdx' both get the slug 'a'.
C9_SlugsDistinct ==
  (Returned("getProjects") /\ ~result.threw) =>
    \A i, j \in 1..Len(result.value) :
      i # j => result.value[i]["slug"] # result.value[j]["slug"]

\* no entry is named as another entry followed by '.mdx'
NoMdxTwin == \A f, g \in Range(entries) : g # f \o ".mdx"

\* C9 amended: the slugs of a listing are pairwise distinct for every set of
\* distinct filenames in which no name is another name followed by '.mdx'
\* (in particular when every name ends in '.mdx').
C9_SlugsDistinctNoTwin ==
  (Returned("getProjects") /\ ~result.threw /\ NoMdxTwin) =>
    \A i, j \in 1..Len(result.value) :
      i # j => result.value[i]["slug"] # result.value[j]["slug"]

\* C9 witness: a listing of three entries, one of them not ending in
\* '.mdx', with three distinct slugs
C9_Witness ==
  /\ Returned("getProjects") /\ ~result.threw /\ NoMdxTwin
  /\ "a.md" \in Range(entries)
  /\ Len(result.value) = 3
  /\ Cardinality({result.value[i]["slug"] : i \in 1..3}) = 3

RECURSIVE lastDot(_, _)
\* the position of the last '.' of s at or before i, 0 when there is none
lastDot(s, i) ==
  IF i = 0 THEN 0
  ELSE IF SubSeq(s, i, i) = "." THEN i
  ELSE lastDot(s, i - 1)

\* the file name without its extension, whatever the extension is
WithoutExtension(f) ==
  LET d == lastDot(f, Len(f)) IN IF d = 0 THEN f ELSE SubSeq(f, 1, d - 1)

\* the frontmatter fields of the readable entry f, as parsed
Parsed(f) == matter(raw[f].lines).data

ReadableEntry(f) == dirExists /\ f \in Range(entries) /\ raw[f].readable

EndsWithMdx(f) ==
  Len(f) >= 4 /\ SubSeq(f, Len(f) - 3, Len(f)) = ".mdx"

MaxQuestions == 2
\* most handler calls made on one render before the component re-renders
MaxBatch == 2

(* ---------------------------- the props ------------------------------- *)

\* a QuizQuestion: the number of its options and its correctAnswer (the
\* texts play no part in the state logic)
Question(n, c) == [nOptions |-> n, correctAnswer |-> c]

\* questions as content may define them: four options with the first or the
\* third correct, two options, no option, a correctAnswer outside the options
QuestionSet ==
  {Question(4, 0), Question(4, 2), Question(2, 1), Question(0, 0),
   Question(2, 5)}

QuestionLists == UNION {[1..n -> QuestionSet] : n \in 0..MaxQuestions}

\* null in userAnswers: an unanswered question
Null == -1

(* ------------------------- the component body ------------------------- *)

RECURSIVE reduceScoreAnswered(_, _, _)
\* a variant of reduceScore that counts every answered question
reduceScoreAnswered(qs, ua, index) ==
  IF index >= Len(ua) THEN 0
  ELSE (IF ua[index + 1] # Null THEN 1 ELSE 0)
       + reduceScoreAnswered(qs, ua, index + 1)

RECURSIVE reduceScore(_, _, _)
\* userAnswers.reduce((total, answer, index) => ..., 0), from index on
reduceScore(qs, ua, index) ==
  IF index >= Len(ua) THEN 0
  ELSE (IF ua[index + 1] = qs[index + 1].correctAnswer THEN 1 ELSE 0)
       + reduceScore(qs, ua, index + 1)

\* a variant of render whose showResult is always true: the Next button is
\* shown and the options are disabled before the question is answered
renderAlwaysShowsResult(qs, cq, ua, done) ==
  LET showResult == TRUE
      isLastQuestion == cq = Len(qs) - 1
  IN IF done
     THEN [kind |-> "completed", currentQuestion |-> cq,
           showResult |-> showResult, isLastQuestion |-> isLastQuestion,
           score |-> reduceScore(qs, ua, 0)]
     ELSE IF cq >= Len(qs)
     THEN [kind |-> "crashed", currentQuestion |-> cq,
           showResult |-> showResult, isLastQuestion |-> isLastQuestion,
           score |-> 0]
     ELSE [kind |-> "question", currentQuestion |-> cq,
           showResult |-> showResult, isLastQuestion |-> isLastQuestion,
           score |-> 0]

\* a variant of render whose isLastQuestion compares with questions.length
renderLastOffByOne(qs, cq, ua, done) ==
  LET showResult == IF cq < Len(ua) THEN ua[cq + 1] # Null ELSE TRUE
      isLastQuestion == cq = Len(qs)
  IN IF done
     THEN [kind |-> "completed", currentQuestion |-> cq,
           showResult |-> showResult, isLastQuestion |-> isLastQuestion,
           score |-> reduceScore(qs, ua, 0)]
     ELSE IF cq >= Len(qs)
     THEN [kind |-> "crashed", currentQuestion |-> cq,
           showResult |-> showResult, isLastQuestion |-> isLastQuestion,
           score |-> 0]
     ELSE [kind |-> "question", currentQuestion |-> cq,
           showResult |-> showResult, isLastQuestion |-> isLastQuestion,
           score |-> 0]

\* what one run of the function body yields from the state it reads: the
\* values its handlers close over and the view it returns, or the TypeError
\* of currentQuestionData.question when questions[currentQuestion] is
\* undefined
render(qs, cq, ua, done) ==
  LET showResult == IF cq < Len(ua) THEN ua[cq + 1] # Null ELSE TRUE
      isLastQuestion == cq = Len(qs) - 1
  IN IF done
     THEN [kind |-> "completed", currentQuestion |-> cq,
           showResult |-> showResult, isLastQuestion |-> isLastQuestion,
           score |-> reduceScore(qs, ua, 0)]
     ELSE IF cq >= Len(qs)
     THEN [kind |-> "crashed", currentQuestion |-> cq,
           showResult |-> showResult, isLastQuestion |-> isLastQuestion,
           score |-> 0]
     ELSE [kind |-> "question", currentQuestion |-> cq,
           showResult |-> showResult, isLastQuestion |-> isLastQuestion,
           score |-> 0]

\* a variant of handleAnswer that writes the selection to the first question
handleAnswerFirstSlot(ua, r, index) ==
  IF r.showResult THEN ua
  ELSE [ua EXCEPT ![1] = index]

\* handleAnswer(index) of the render r: the userAnswers it leaves
handleAnswer(ua, r, index) ==
  IF r.showResult THEN ua
  ELSE [ua EXCEPT ![r.currentQuestion + 1] = index]

\* a variant of nextQuestion that starts over after the last question
nextQuestionWraps(cq, done, r) ==
  IF r.isLastQuestion
  THEN [currentQuestion |-> 0, isQuizCompleted |-> FALSE]
  ELSE [currentQuestion |-> cq + 1, isQuizCompleted |-> done]

\* a variant of nextQuestion without the isLastQuestion test
nextQuestionAlwaysAdvances(cq, done, r) ==
  [currentQuestion |-> cq + 1, isQuizCompleted |-> done]

\* a variant of nextQuestion that finishes the quiz on every call
nextQuestionAlwaysFinishes(cq, done, r) ==
  [currentQuestion |-> cq, isQuizCompleted |-> TRUE]

\* nextQuestion() of the render r: the currentQuestion and isQuizCompleted
\* it leaves
nextQuestion(cq, done, r) ==
  IF r.isLastQuestion
  THEN [currentQuestion |-> cq, isQuizCompleted |-> TRUE]
  ELSE [currentQuestion |-> cq + 1, isQuizCompleted |-> done]

\* the component is on screen and its handlers exist
Mounted == rendered.kind \in {"question", "completed"}

\* the indices the handleAnswer closures of the render are created for
OptionIndices == 0..(questions[rendered.currentQuestion + 1].nOptions - 1)

\* a user who selects on an unanswered question and advances on an
\* answered one, while the quiz is in progress
SelectsAsUser == rendered.kind = "question" /\ ~rendered.showResult
AdvancesAsUser == rendered.kind = "question" /\ rendered.showResult

(* ------------------------------ actions ------------------------------- *)

StoreIdle ==
  /\ dirExists = FALSE
  /\ entries = <<>>
  /\ raw = EmptyData
  /\ pc = "idle"
  /\ call = NoCall
  /\ result = NoResult

QuizInit == StoreIdle /\ QuizAbsent /\ UiIdle

\* the first render of <Quiz questions={qs} />
Mount ==
  /\ rendered.kind = "none"
  /\ \E qs \in QuestionLists :
       /\ questions' = qs
       /\ currentQuestion' = 0
       /\ userAnswers' = [i \in 1..Len(qs) |-> Null]
       /\ isQuizCompleted' = FALSE
       /\ rendered' = render(qs, 0, [i \in 1..Len(qs) |-> Null], FALSE)
  /\ UNCHANGED <<qcall, batch, advances, disciplined>>
  /\ UNCHANGED <<vars, uiVars>>

\* a call of handleAnswer(index), then the re-render its update causes
HandleAnswer ==
  /\ Mounted
  /\ \E index \in OptionIndices :
       /\ qcall' = [op |-> "handleAnswer", index |-> index]
       /\ userAnswers' = handleAnswer(userAnswers, rendered, index)
  /\ rendered' = render(questions, currentQuestion, userAnswers',
                        isQuizCompleted)
  /\ disciplined' = (disciplined /\ SelectsAsUser)
  /\ UNCHANGED <<questions, currentQuestion, isQuizCompleted, batch,
                 advances>>
  /\ UNCHANGED <<vars, uiVars>>

\* a call of nextQuestion(), then the re-render its update causes
NextQuestion ==
  /\ Mounted
  /\ qcall' = [op |-> "nextQuestion", index |-> 0]
  /\ LET n == nextQuestion(currentQuestion, isQuizCompleted, rendered) IN
       /\ currentQuestion' = n.currentQuestion
       /\ isQuizCompleted' = n.isQuizCompleted
  /\ rendered' = render(questions, currentQuestion', userAnswers,
                        isQuizCompleted')
  /\ disciplined' = (disciplined /\ AdvancesAsUser)
  /\ advances' = IF disciplined' THEN advances + 1 ELSE 0
  /\ UNCHANGED <<questions, userAnswers, batch>>
  /\ UNCHANGED <<vars, uiVars>>

QuizNext ==
  \/ Mount
  \/ HandleAnswer
  \/ NextQuestion

\* every handler call is followed by the re-render before the next call
SpecQuiz == QuizInit /\ [][QuizNext]_allVars

\* a call of handleAnswer(index) on the handlers of the last render, the
\* re-render still pending
CallHandleAnswer ==
  /\ Mounted
  /\ batch < MaxBatch
  /\ batch' = batch + 1
  /\ \E index \in OptionIndices :
       /\ qcall' = [op |-> "handleAnswer", index |-> index]
       /\ userAnswers' = handleAnswer(userAnswers, rendered, index)
  /\ disciplined' = FALSE
  /\ advances' = 0
  /\ UNCHANGED <<questions, currentQuestion, isQuizCompleted, rendered>>
  /\ UNCHANGED <<vars, uiVars>>

\* a call of nextQuestion() on the handlers of the last render, the
\* re-render still pending
CallNextQuestion ==
  /\ Mounted
  /\ batch < MaxBatch
  /\ batch' = batch + 1
  /\ qcall' = [op |-> "nextQuestion", index |-> 0]
  /\ LET n == nextQuestion(currentQuestion, isQuizCompleted, rendered) IN
       /\ currentQuestion' = n.currentQuestion
       /\ isQuizCompleted' = n.isQuizCompleted
  /\ disciplined' = FALSE
  /\ advances' = 0
  /\ UNCHANGED <<questions, userAnswers, rendered>>
  /\ UNCHANGED <<vars, uiVars>>

\* the re-render that follows the queued updates of one or more calls
Rerender ==
  /\ Mounted
  /\ batch > 0
  /\ batch' = 0
  /\ rendered' = render(questions, currentQuestion, userAnswers,
                        isQuizCompleted)
  /\ UNCHANGED <<questions, currentQuestion, userAnswers, isQuizCompleted,
                 qcall, advances, disciplined>>
  /\ UNCHANGED <<vars, uiVars>>

QuizBatchedNext ==
  \/ Mount
  \/ CallHandleAnswer
  \/ CallNextQuestion
  \/ Rerender

\* up to MaxBatch handler calls are made on one render before it re-renders
SpecQuizBatched == QuizInit /\ [][QuizBatchedNext]_allVars

(* ------------------------- the claims on Quiz ------------------------- *)

NQuestions == Len(questions)

\* the quiz was constructed with a non-empty question list (an empty one
\* makes the first render throw, so that no instance exists)
Constructed == rendered.kind # "none" /\ questions # <<>>

C12_AnswerSetAtMostOnce ==
  [][\A i \in 1..Len(userAnswers) :
       userAnswers[i] # Null => userAnswers'[i] = userAnswers[i]]_allVars

\* C13: handleAnswer(i), called while the quiz is in progress and the
\* current question is unanswered, sets userAnswers[currentQuestion] to i
\* and leaves currentQuestion, isQuizCompleted and every other element of
\* userAnswers unchanged.
C13_HandleAnswerFrame ==
  [][(/\ HandleAnswer
      /\ ~isQuizCompleted
      /\ userAnswers[currentQuestion + 1] = Null)
     => /\ userAnswers'[currentQuestion + 1] = qcall'.index
        /\ \A j \in 1..Len(userAnswers) :
             j # currentQuestion + 1 => userAnswers'[j] = userAnswers[j]
        /\ Len(userAnswers') = Len(userAnswers)
        /\ currentQuestion' = currentQuestion
        /\ isQuizCompleted' = isQuizCompleted]_allVars

\* C13 witness: handleAnswer has recorded a selection for the second
\* question, the first holding another selection
C13_Witness ==
  /\ rendered.kind = "question"
  /\ qcall.op = "handleAnswer"
  /\ currentQuestion = 1
  /\ userAnswers[2] = qcall.index
  /\ userAnswers[1] # Null /\ userAnswers[1] # userAnswers[2]

\* C14: nextQuestion(), called while the current question is answered,
\* moves to currentQuestion + 1 with isQuizCompleted still false when
\* currentQuestion + 1 < questions.length, and otherwise sets
\* isQuizCompleted to true; userAnswers is unchanged in both cases.
C14_NextQuestionAdvances ==
  [][(/\ NextQuestion
      /\ userAnswers[currentQuestion + 1] # Null)
     => /\ IF currentQuestion + 1 < NQuestions
           THEN currentQuestion' = currentQuestion + 1 /\ ~isQuizCompleted'
           ELSE isQuizCompleted'
        /\ userAnswers' = userAnswers]_allVars

\* C14 witness: nextQuestion has completed a quiz of two answered questions
C14_Witness ==
  /\ rendered.kind = "completed"
  /\ qcall.op = "nextQuestion"
  /\ NQuestions = 2
  /\ currentQuestion = 1
  /\ \A i \in 1..2 : userAnswers[i] # Null

\* C15: nextQuestion() called while the current question is unanswered
\* changes none of currentQuestion, userAnswers and isQuizCompleted.  The
\* code contradicts it: nextQuestion does not look at userAnswers and
\* advances (or completes the quiz) all the same.
C15_NextQuestionRejectedUnanswered ==
  [][(/\ NextQuestion
      /\ ~isQuizCompleted
      /\ userAnswers[currentQuestion + 1] = Null)
     => UNCHANGED <<currentQuestion, userAnswers, isQuizCompleted>>]_allVars

\* C16: once isQuizCompleted is true no handleAnswer or nextQuestion call
\* changes currentQuestion, userAnswers or isQuizCompleted, and the score
\* shown stays the same.  The code contradicts it: handleAnswer does not
\* look at isQuizCompleted, and after a last question left unanswered (C15)
\* it still records a selection, which changes the score.
C16_CompletedIsTerminal ==
  [][isQuizCompleted
     => /\ UNCHANGED <<currentQuestion, userAnswers, isQuizCompleted>>
        /\ rendered'.score = rendered.score]_allVars

\* C17: the score the Quiz reports is the number of indices i with
\* userAnswers[i] = questions[i].correctAnswer, unanswered questions adding
\* nothing, so that 0 <= score <= questions.length.
C17_ScoreCountsCorrect ==
  rendered.kind = "completed" =>
    /\ rendered.score =
         Cardinality({i \in 1..NQuestions :
                        userAnswers[i] # Null
                        /\ userAnswers[i] = questions[i].correctAnswer})
    /\ 0 <= rendered.score /\ rendered.score <= NQuestions

\* C17 witness: a completed quiz of two questions, one answered correctly
\* and one answered wrongly, reporting the score 1
C17_Witness ==
  /\ rendered.kind = "completed"
  /\ NQuestions = 2
  /\ userAnswers[1] = questions[1].correctAnswer
  /\ userAnswers[2] # Null /\ userAnswers[2] # questions[2].correctAnswer
  /\ rendered.score = 1

\* a definition the spec accepts: at least one question, every question
\* with an option and a correctAnswer among its options
WellFormed(qs) ==
  /\ qs # <<>>
  /\ \A i \in 1..Len(qs) :
       /\ qs[i].nOptions >= 1
       /\ 0 <= qs[i].correctAnswer /\ qs[i].correctAnswer < qs[i].nOptions

\* C18: a malformed definition fails at construction, so that every mounted
\* quiz has a well-formed one.  The code contradicts it: nothing validates
\* the props; a question without options or with a correctAnswer outside
\* its options is mounted.
C18_MalformedRejected == Mounted => WellFormed(questions)

\* C19: for a user who only selects an option on the unanswered current
\* question and then advances, a quiz of n >= 1 questions is completed after
\* exactly n advances and not before; with the questions of correct answers
\* 0 and 2, the first answered correctly and the second not, the final
\* score is 1.
C19_CompletedAfterNAdvances ==
  (Constructed /\ disciplined) =>
    /\ advances <= NQuestions
    /\ isQuizCompleted <=> advances = NQuestions
    /\ (/\ isQuizCompleted
        /\ questions = <<Question(4, 0), Question(4, 2)>>
        /\ userAnswers[1] = 0 /\ userAnswers[2] # 2)
       => rendered.kind = "completed" /\ rendered.score = 1

\* C19 witness: the user has answered the first question correctly and the
\* second wrongly, advanced twice, and the quiz is completed
C19_Witness ==
  /\ Constructed /\ disciplined
  /\ questions = <<Question(4, 0), Question(4, 2)>>
  /\ userAnswers = <<0, 1>>
  /\ advances = 2
  /\ isQuizCompleted
  /\ rendered.score = 1

(* --------------------- further claims on Quiz ------------------------- *)

\* question i (from 0) has a recorded answer
Answered(i) == userAnswers[i + 1] # Null

\* C25: in every state a user reaches through the rendered controls
\* (selecting only while the current question is unanswered, advancing only
\* once it is answered), every question before currentQuestion is answered
\* and every question after it is unanswered, and once isQuizCompleted is
\* true every question is answered.
C25_AnsweredUpToCurrent ==
  (rendered.kind # "none" /\ disciplined) =>
    /\ \A i \in 0..(NQuestions - 1) :
         /\ i < currentQuestion => Answered(i)
         /\ i > currentQuestion => ~Answered(i)
    /\ isQuizCompleted => \A i \in 0..(NQuestions - 1) : Answered(i)

\* C25 witness: the user has answered the first of two questions and
\* advanced to the second, which is still unanswered
C25_Witness ==
  /\ rendered.kind = "question" /\ disciplined
  /\ NQuestions = 2
  /\ currentQuestion = 1
  /\ Answered(0) /\ ~Answered(1)

\* C26: over any sequence of Quiz operations currentQuestion never
\* decreases, changes only in a nextQuestion call and then grows by exactly
\* 1, and isQuizCompleted, once true, stays true: the quiz neither goes
\* back to an earlier question nor restarts.
C26_QuizOnlyMovesForward ==
  [][/\ currentQuestion' >= currentQuestion
     /\ currentQuestion' <= currentQuestion + 1
     /\ currentQuestion' # currentQuestion => qcall'.op = "nextQuestion"
     /\ isQuizCompleted => isQuizCompleted']_allVars

\* C26 witness: handleAnswer was called on a completed quiz of two
\* questions, which is still completed and still at its last question
C26_Witness ==
  /\ isQuizCompleted
  /\ qcall.op = "handleAnswer"
  /\ NQuestions = 2
  /\ currentQuestion = 1

(* ------------------------ the claims on parsing ----------------------- *)

\* the text does not open with a '---' line
NoLeadingBlock(lines) == lines = <<>> \/ lines[1] # Delim

\* the text opens with a block of exactly title and date, closed by '---'
TitleDateBlock(lines) ==
  /\ Len(lines) >= 4
  /\ lines[1] = Delim /\ lines[4] = Delim
  /\ lines[2].kind = "kv" /\ lines[2].key = "title"
  /\ lines[3].kind = "kv" /\ lines[3].key = "date"

\* C24: a document without a leading '---' block is parsed, without an
\* error, to empty metadata and the full original text as body, and a
\* document whose block holds title and date is parsed to exactly those two
\* fields and the text after the block as body; getProjectBySlug and
\* getProjectMetadata return that metadata with the slug beside it.
C24_ParseYieldsFieldsAndBody ==
  /\ (Returned("getProjectBySlug") /\ call.slug \in {"a", "b"}
      /\ ReadableEntry(call.slug \o ".mdx")) =>
       LET lines == raw[call.slug \o ".mdx"].lines IN
       /\ ~result.threw /\ ~result.isNull
       /\ NoLeadingBlock(lines) =>
            /\ DOMAIN result.metadata = {"slug"}
            /\ result.content = lines
       /\ TitleDateBlock(lines) =>
            /\ DOMAIN result.metadata = {"title", "date", "slug"}
            /\ result.metadata["title"] = lines[2].value
            /\ result.metadata["date"] = lines[3].value
            /\ result.content = SubSeq(lines, 5, Len(lines))
  /\ (Returned("getProjectMetadata") /\ ReadableEntry(call.fileName)) =>
       LET lines == raw[call.fileName].lines IN
       /\ ~result.threw
       /\ NoLeadingBlock(lines) => DOMAIN result.value = {"slug"}
       /\ TitleDateBlock(lines) =>
            /\ DOMAIN result.value = {"title", "date", "slug"}
            /\ result.value["title"] = lines[2].value
            /\ result.value["date"] = lines[3].value

\* C24 witness: a lookup has parsed a document with title, date and a body
C24_Witness ==
  /\ Returned("getProjectBySlug") /\ call.slug = "a"
  /\ ReadableEntry("a.mdx")
  /\ raw["a.mdx"].lines = Doc2023
  /\ result.metadata["title"] = "Cryptoverse"
  /\ result.content = <<Text("Hello")>>

\* the identifiers getProjects() returns for the store as it is
ListedIdentifiers ==
  LET listed == getProjects(NoLimit) IN
  IF listed.threw THEN {}
  ELSE {listed.value[i]["slug"] : i \in 1..Len(listed.value)}

\* the path is that of an entry of the collection directory
InsideCollection(path) ==
  /\ Len(path) = Len(rootDirectory) + 1
  /\ SubSeq(path, 1, Len(rootDirectory)) = rootDirectory

\* C27: getProjectBySlug(slug) returns a document only for a slug that
\* getProjects() returns for the same store, and the document is read
\* from the collection directory: a slug with path separators or '..'
\* yields no document from outside it.
C27_LookupConfinedToCollection ==
  (Returned("getProjectBySlug") /\ ~result.isNull) =>
    /\ InsideCollection(pathJoin(rootDirectory, call.slug \o ".mdx"))
    /\ call.slug \in ListedIdentifiers

(* ------------------- src/app/projects/[slug]/page.tsx ----------------- *)

\* a metadata field as the page destructures it: the value, or undefined
field(metadata, k) == IF k \in DOMAIN metadata THEN <<metadata[k]>> ELSE <<>>

NoView == [title |-> <<>>, date |-> <<>>, image |-> <<>>, author |-> <<>>,
           content |-> <<>>]

\* a variant of Project without the test of the lookup's outcome: the
\* destructuring of null raises a TypeError
ProjectNoGuard(slug) ==
  LET project == getProjectBySlug(slug) IN
  IF project.isNull
  THEN [threw |-> TRUE, kind |-> "typeError", notFound |-> FALSE,
        destructured |-> TRUE, view |-> NoView]
  ELSE [threw |-> FALSE, kind |-> "page", notFound |-> FALSE,
        destructured |-> TRUE,
        view |-> [title |-> field(project.metadata, "title"),
                  date |-> field(project.metadata, "date"),
                  image |-> field(project.metadata, "image"),
                  author |-> field(project.metadata, "author"),
                  content |-> project.content]]

\* Project({ params }): notFound() throws the error the framework answers
\* with its not-found page, so the statements after it are not reached;
\* otherwise the page destructures the document and hands title, date,
\* image, author and content to the view
Project(slug) ==
  LET project == getProjectBySlug(slug) IN
  IF project.isNull
  THEN [threw |-> TRUE, kind |-> "notFound", notFound |-> TRUE,
        destructured |-> FALSE, view |-> NoView]
  ELSE [threw |-> FALSE, kind |-> "page", notFound |-> FALSE,
        destructured |-> TRUE,
        view |-> [title |-> field(project.metadata, "title"),
                  date |-> field(project.metadata, "date"),
                  image |-> field(project.metadata, "image"),
                  author |-> field(project.metadata, "author"),
                  content |-> project.content]]

\* a request for /projects/[slug]
CallProject ==
  /\ pc = "idle"
  /\ \E slug \in Slugs :
       /\ call' = [NoCall EXCEPT !.op = "Project", !.slug = slug]
       /\ result' = Project(slug)
  /\ pc' = "returned"
  /\ UNCHANGED <<dirExists, entries, raw>>
  /\ UNCHANGED <<quizVars, uiVars>>

PageNext ==
  \/ CallProject
  \/ Return

\* the project page served over the document store
SpecPage == SpecInit /\ [][PageNext]_allVars

\* C21: the project page answers with the not-found state, without
\* destructuring metadata or content, whenever getProjectBySlug returns null
\* for the requested slug; when a document is returned, notFound() is not
\* invoked and the page shows that document's content.
C21_NotFoundWhenAbsent ==
  Returned("Project") =>
    LET project == getProjectBySlug(call.slug) IN
    /\ project.isNull =>
         /\ result.notFound
         /\ result.kind = "notFound"
         /\ ~result.destructured
    /\ ~project.isNull =>
         /\ ~result.notFound
         /\ result.kind = "page"
         /\ result.view.content = project.content

\* C21 witness: a page request for a slug with no document at its path has
\* been answered with the not-found state
C21_Witness ==
  /\ Returned("Project")
  /\ NoDocumentAt(call.slug)
  /\ result.notFound

(* --------------------- src/components/mdx-content.tsx ----------------- *)

\* { ...a, ...b }: a new object with the entries of a, then those of b
spread(a, b) ==
  [k \in DOMAIN a \cup DOMAIN b |-> IF k \in DOMAIN b THEN b[k] ELSE a[k]]

\* props.components || {}
orEmpty(c) == IF c.given THEN c.map ELSE EmptyData

\* element names MDX renders as plain HTML when no component overrides them
Intrinsic == {"p", "h1", "code"}

\* <MDXRemote source components />: every element of the body rendered by
\* the component its name resolves to; a name that is neither registered
\* nor an HTML element fails the render
MDXRemote(source, comps) ==
  LET resolve(tag) == IF tag \in DOMAIN comps THEN comps[tag]
                      ELSE IF tag \in Intrinsic THEN "html"
                      ELSE "undefined"
      out == [i \in 1..Len(source) |->
                [tag |-> source[i], by |-> resolve(source[i])]]
  IN IF \E i \in 1..Len(out) : out[i].by = "undefined"
     THEN [threw |-> TRUE, output |-> <<>>]
     ELSE [threw |-> FALSE, output |-> out]

\* a variant of MDXContent that merges the caller's components into the
\* module-level map (Object.assign(components, props.components || {}))
MDXContentAssign(comps, props) ==
  LET merged == spread(comps, orEmpty(props.components))
      r == MDXRemote(props.source, merged)
  IN [components |-> merged, propsComponents |-> props.components,
      threw |-> r.threw, output |-> r.output]

\* MDXContent(props): the output, and the module-level map and the
\* caller's components object as the render leaves them
MDXContent(comps, props) ==
  LET merged == spread(comps, orEmpty(props.components))
      r == MDXRemote(props.source, merged)
  IN [components |-> comps, propsComponents |-> props.components,
      threw |-> r.threw, output |-> r.output]

\* nothing is mounted, no request is being served
AllIdle == StoreIdle /\ QuizAbsent /\ UiIdle

\* bodies: sequences of element names
Bodies ==
  {<<>>, <<"p">>, <<"h1", "code">>, <<"p", "Alert">>, <<"Counter", "Quiz">>,
   <<"Alert", "ExpandableSection", "code">>, <<"p", "Callout">>}

\* what a caller passes as props.components
Overrides ==
  {NoComponents,
   [given |-> TRUE, map |-> EmptyData],
   [given |-> TRUE, map |-> [k \in {"Alert"} |-> "MyAlert"]],
   [given |-> TRUE, map |-> [k \in {"code", "Callout"} |->
                               IF k = "code" THEN "Pre" ELSE "Callout"]]}

\* most renders of MDXContent in one process
MaxRenders == 3

\* one render of <MDXContent source components />
RenderMDXContent ==
  /\ mdx.n < MaxRenders
  /\ \E source \in Bodies, given \in Overrides :
       LET r == MDXContent(components, [source |-> source,
                                        components |-> given])
           this == [rendered |-> TRUE, n |-> mdx.n + 1, source |-> source,
                    given |-> given, after |-> r.propsComponents,
                    threw |-> r.threw,
                    output |-> r.output]
       IN /\ components' = r.components
          /\ mdx' = this
          /\ mdxFirst' = IF mdxFirst.rendered THEN mdxFirst ELSE this
  /\ UNCHANGED <<vars, quizVars, sectionVars, postsVars, counterVars,
                 mailVars>>

MdxNext == RenderMDXContent

\* MDXContent rendered any number of times in one process
SpecMdx == AllIdle /\ [][MdxNext]_allVars

\* C22: a render through MDXContent of the same body with the same
\* props.components as an earlier render gives the output of that earlier
\* render, whatever was rendered in between, and no render changes the
\* built-in components map or the caller's props.components.
C22_RenderIdempotentNoMutation ==
  mdx.rendered =>
    /\ components = BuiltIn
    /\ mdx.after = mdx.given
    /\ (mdx.source = mdxFirst.source /\ mdx.given = mdxFirst.given) =>
         (mdx.threw = mdxFirst.threw /\ mdx.output = mdxFirst.output)

\* C22 witness: a body using Alert, first rendered with the built-in
\* registry alone, is rendered the same way again by the third render;
\* Alert is the built-in one both times
C22_Witness ==
  /\ mdx.rendered /\ mdx.n = 3
  /\ mdx.source = <<"p", "Alert">>
  /\ mdx.given = NoComponents
  /\ mdxFirst.source = mdx.source /\ mdxFirst.given = mdx.given
  /\ mdxFirst.n = 1
  /\ mdx.output[2].by = "Alert" /\ mdxFirst.output = mdx.output

(* ------------------- ExpandableSection (expandable-section) ----------- *)

\* most clicks on one section, and most of them handled on one render
MaxClicks == 4
MaxPending == 2

Upper == "ABCDEFGHIJKLMNOPQRSTUVWXYZ"
Lower == "abcdefghijklmnopqrstuvwxyz"

lowerChar(c) ==
  IF \E i \in 1..Len(Upper) : SubSeq(Upper, i, i) = c
  THEN LET i == CHOOSE i \in 1..Len(Upper) : SubSeq(Upper, i, i) = c
       IN SubSeq(Lower, i, i)
  ELSE c

RECURSIVE toLowerCase(_)
toLowerCase(s) ==
  IF s = "" THEN ""
  ELSE lowerChar(SubSeq(s, 1, 1)) \o toLowerCase(SubSeq(s, 2, Len(s)))

RECURSIVE replaceSpaces(_, _)
\* s.replace(/\s+/g, '-') from character i on: every run of blanks becomes
\* one '-'
replaceSpaces(s, i) ==
  IF i > Len(s) THEN ""
  ELSE IF SubSeq(s, i, i) = " "
  THEN IF i > 1 /\ SubSeq(s, i - 1, i - 1) = " "
       THEN replaceSpaces(s, i + 1)
       ELSE "-" \o replaceSpaces(s, i + 1)
  ELSE SubSeq(s, i, i) \o replaceSpaces(s, i + 1)

\* useState(defaultExpanded), with defaultExpanded = false when not given
initialExpanded(props) ==
  IF props.defaultExpanded = <<>> THEN FALSE ELSE props.defaultExpanded[1]

\* what one run of the function body yields from the state it reads
renderSection(props, expanded) ==
  LET id == "content-" \o toLowerCase(replaceSpaces(props.title, 1)) IN
  [mounted |-> TRUE, isExpanded |-> expanded,
   icon |-> IF expanded THEN "ChevronUp" ELSE "ChevronDown",
   ariaControls |-> id, contentId |-> id, visible |-> expanded]

\* onClick={() => setIsExpanded(!isExpanded)} of the render r: the value
\* the state is set to
onClick(r) == ~r.isExpanded

SectionPropsSet ==
  {[title |-> t, defaultExpanded |-> d] :
     t \in {"FAQ", "Key  Points", "Summary"}, d \in {<<>>, <<TRUE>>, <<FALSE>>}}

\* the first render of <ExpandableSection title defaultExpanded />
MountSection ==
  /\ ~sectionRendered.mounted
  /\ \E props \in SectionPropsSet :
       /\ sectionProps' = props
       /\ isExpanded' = initialExpanded(props)
       /\ sectionRendered' = renderSection(props, initialExpanded(props))
  /\ UNCHANGED <<clicks, sectionPending>>
  /\ UNCHANGED <<vars, quizVars, mdxVars, postsVars, counterVars, mailVars>>

\* a click on the header, handled by the handler of the last render; the
\* re-render is still pending
ClickHeader ==
  /\ sectionRendered.mounted
  /\ clicks < MaxClicks
  /\ sectionPending < MaxPending
  /\ isExpanded' = onClick(sectionRendered)
  /\ clicks' = clicks + 1
  /\ sectionPending' = sectionPending + 1
  /\ UNCHANGED <<sectionProps, sectionRendered>>
  /\ UNCHANGED <<vars, quizVars, mdxVars, postsVars, counterVars, mailVars>>

\* the re-render that follows the state updates of one or more clicks
RerenderSection ==
  /\ sectionRendered.mounted
  /\ sectionPending > 0
  /\ sectionPending' = 0
  /\ sectionRendered' = renderSection(sectionProps, isExpanded)
  /\ UNCHANGED <<sectionProps, isExpanded, clicks>>
  /\ UNCHANGED <<vars, quizVars, mdxVars, postsVars, counterVars, mailVars>>

SectionNext ==
  \/ MountSection
  \/ ClickHeader
  \/ RerenderSection

\* one ExpandableSection; up to MaxPending clicks are handled on one render
SpecSection == AllIdle /\ [][SectionNext]_allVars

Odd(k) == k % 2 = 1

\* C23: the state of an ExpandableSection starts at defaultExpanded (false
\* when not given) and every click on the header flips it: after k clicks
\* it is expanded exactly when defaultExpanded differs from (k is odd), also
\* when two clicks were handled before a re-render, and once re-rendered
\* the section shows that state.
C23_ExpandedIsParityOfClicks ==
  sectionRendered.mounted =>
    /\ isExpanded = (initialExpanded(sectionProps) # Odd(clicks))
    /\ sectionPending = 0 => sectionRendered.isExpanded = isExpanded

(* ------------------ src/components/posts-with-search.tsx -------------- *)

\* most posts handed to PostsWithSearch
MaxPosts == 3

\* s.includes(q)
includes(s, q) ==
  \/ q = ""
  \/ \E i \in 1..(Len(s) - Len(q) + 1) : SubSeq(s, i, i + Len(q) - 1) = q

\* the callback of posts.filter: undefined, which filter takes as false,
\* for a post without a title
matches(post, q) ==
  IF post.title = <<>> THEN FALSE
  ELSE includes(toLowerCase(post.title[1]), toLowerCase(q))

RECURSIVE filter(_, _)
filter(ps, q) ==
  IF ps = <<>> THEN <<>>
  ELSE (IF matches(Head(ps), q) THEN <<Head(ps)>> ELSE <<>>)
       \o filter(Tail(ps), q)

\* what one run of the function body yields from the state it reads
renderPosts(ps, q) ==
  [mounted |-> TRUE, isFiltered |-> Len(q) > 0, filteredPosts |-> filter(ps, q)]

\* posts, the title being optional
PostSet ==
  {[slug |-> "sql-for-beginners", title |-> <<"SQL for Beginners">>],
   [slug |-> "solid", title |-> <<"SOLID Principles in Java">>],
   [slug |-> "untitled", title |-> <<>>],
   [slug |-> "blank", title |-> <<"">>]}

PostLists ==
  UNION {{s \in [1..n -> PostSet] : IsInjective(s)} : n \in 0..MaxPosts}

\* what a user types into the search box
Queries == {"", "sql", "SOL", "java", "rust"}

\* the first render of <PostsWithSearch posts={ps} />
MountPosts ==
  /\ ~postsRendered.mounted
  /\ \E ps \in PostLists :
       /\ posts' = ps
       /\ query' = ""
       /\ postsRendered' = renderPosts(ps, "")
  /\ UNCHANGED <<vars, quizVars, mdxVars, sectionVars, counterVars,
                 mailVars>>

\* onChange of the input: setQuery(e.target.value), then the re-render
ChangeQuery ==
  /\ postsRendered.mounted
  /\ \E value \in Queries :
       /\ query' = value
       /\ postsRendered' = renderPosts(posts, value)
  /\ UNCHANGED posts
  /\ UNCHANGED <<vars, quizVars, mdxVars, sectionVars, counterVars,
                 mailVars>>

\* a click on Reset, shown while isFiltered: resetFilter, then the re-render
ResetFilter ==
  /\ postsRendered.mounted
  /\ postsRendered.isFiltered
  /\ query' = ""
  /\ postsRendered' = renderPosts(posts, "")
  /\ UNCHANGED posts
  /\ UNCHANGED <<vars, quizVars, mdxVars, sectionVars, counterVars,
                 mailVars>>

PostsNext ==
  \/ MountPosts
  \/ ChangeQuery
  \/ ResetFilter

\* one PostsWithSearch and its user
SpecPosts == AllIdle /\ [][PostsNext]_allVars

\* C28: while the query is empty (initially and after Reset)
\* PostsWithSearch shows every post it was given, in the given order,
\* posts without a title included: a post without a title is dropped only
\* under a non-empty query.
C28_EmptyQueryShowsAll ==
  postsRendered.mounted =>
    /\ query = "" => postsRendered.filteredPosts = posts
    /\ \A i \in 1..Len(posts) :
         (posts[i].title = <<>> /\ posts[i] \notin
            Range(postsRendered.filteredPosts)) => query # ""

(* ---------------------------- Counter (counter) ----------------------- *)

\* what one run of the function body yields from the state it reads
renderCounter(c) == [mounted |-> TRUE, count |-> c]

\* increment() of the render r: the value the state is set to
increment(r) == r.count + 1

\* decrement() of the render r: the value the state is set to
decrement(r) == r.count - 1

\* the first render of <Counter />
MountCounter ==
  /\ ~counterRendered.mounted
  /\ count' = 0
  /\ counterRendered' = renderCounter(0)
  /\ UNCHANGED <<increments, decrements, counterPending>>
  /\ UNCHANGED <<vars, quizVars, mdxVars, sectionVars, postsVars, mailVars>>

\* a click on the plus button, handled by the handler of the last render;
\* the re-render is still pending
ClickIncrement ==
  /\ counterRendered.mounted
  /\ increments + decrements < MaxClicks
  /\ counterPending < MaxPending
  /\ count' = increment(counterRendered)
  /\ increments' = increments + 1
  /\ counterPending' = counterPending + 1
  /\ UNCHANGED <<counterRendered, decrements>>
  /\ UNCHANGED <<vars, quizVars, mdxVars, sectionVars, postsVars, mailVars>>

\* a click on the minus button, handled by the handler of the last render;
\* the re-render is still pending
ClickDecrement ==
  /\ counterRendered.mounted
  /\ increments + decrements < MaxClicks
  /\ counterPending < MaxPending
  /\ count' = decrement(counterRendered)
  /\ decrements' = decrements + 1
  /\ counterPending' = counterPending + 1
  /\ UNCHANGED <<counterRendered, increments>>
  /\ UNCHANGED <<vars, quizVars, mdxVars, sectionVars, postsVars, mailVars>>

\* the re-render that follows the state updates of one or more clicks
RerenderCounter ==
  /\ counterRendered.mounted
  /\ counterPending > 0
  /\ counterPending' = 0
  /\ counterRendered' = renderCounter(count)
  /\ UNCHANGED <<count, increments, decrements>>
  /\ UNCHANGED <<vars, quizVars, mdxVars, sectionVars, postsVars, mailVars>>

CounterNext ==
  \/ MountCounter
  \/ ClickIncrement
  \/ ClickDecrement
  \/ RerenderCounter

\* one Counter; up to MaxPending clicks are handled on one render
SpecCounter == AllIdle /\ [][CounterNext]_allVars

\* C29: after any sequence of clicks on the plus and minus buttons the
\* count the Counter displays, once it has re-rendered, is the number of
\* increments minus the number of decrements, also when several clicks
\* were handled before the re-render.
C29_CountIsIncrementsMinusDecrements ==
  (counterRendered.mounted /\ counterPending = 0) =>
    counterRendered.count = increments - decrements

(* ----------------- src/lib/actions.ts and the contact form ------------ *)

\* what reaches sendEmail: the form's default values, a filled-in form,
\* and one with a malformed address
Inputs ==
  {NoInput,
   [name |-> "Erik", email |-> "erik@example.com", message |-> "Hello"],
   [name |-> "Erik", email |-> "erik", message |-> "Hello"]}

\* ContactFormSchema.safeParse(data) for a schema accepting the inputs in
\* sch: { success, data } or { success, error }
safeParse(sch, data) ==
  IF data \in sch THEN [success |-> TRUE, error |-> FALSE, data |-> data]
  ELSE [success |-> FALSE, error |-> TRUE, data |-> NoInput]

\* what resend.emails.send can do: resolve with data, with an error, with
\* neither or both, or reject
Responses ==
  {[threw |-> FALSE, data |-> TRUE, error |-> FALSE],
   [threw |-> FALSE, data |-> FALSE, error |-> TRUE],
   [threw |-> FALSE, data |-> FALSE, error |-> FALSE],
   [threw |-> FALSE, data |-> TRUE, error |-> TRUE],
   [threw |-> TRUE, data |-> FALSE, error |-> FALSE]}

\* a variant of sendEmail without the early return on a validation error
sendEmailNoValidation(sch, data, response) ==
  [sends |-> 1,
   response |-> response,
   outcome |->
     IF response.threw
     THEN [threw |-> FALSE, success |-> FALSE, hasError |-> TRUE,
           error |-> "rejected"]
     ELSE IF ~response.data \/ response.error
     THEN [threw |-> FALSE, success |-> FALSE, hasError |-> TRUE,
           error |-> "Failed to send email"]
     ELSE [threw |-> FALSE, success |-> TRUE, hasError |-> FALSE,
           error |-> ""]]

\* sendEmail(data), the mail provider answering with response when it is
\* called: the number of sends, the provider's answer and the outcome
sendEmail(sch, data, response) ==
  LET parsed == safeParse(sch, data) IN
  IF parsed.error
  THEN [sends |-> 0,
        response |-> NoResponse,
        outcome |-> [threw |-> FALSE, success |-> FALSE, hasError |-> TRUE,
                     error |-> "format"]]
  ELSE [sends |-> 1,
        response |-> response,
        outcome |->
          IF response.threw
          THEN [threw |-> FALSE, success |-> FALSE, hasError |-> TRUE,
                error |-> "rejected"]
          ELSE IF ~response.data \/ response.error
          THEN [threw |-> FALSE, success |-> FALSE, hasError |-> TRUE,
                error |-> "Failed to send email"]
          ELSE [threw |-> FALSE, success |-> TRUE, hasError |-> FALSE,
                error |-> ""]]

\* onSubmit(data) of the form, given the outcome of sendEmail (every error
\* value sendEmail returns is an object, hence truthy)
onSubmit(data, outcome) ==
  IF outcome.hasError
  THEN [values |-> data, errors |-> FALSE, toast |-> "error"]
  ELSE [values |-> NoInput, errors |-> FALSE, toast |-> "success"]

\* the schema is some set of accepted inputs; nothing has been sent
MailInit ==
  /\ StoreIdle /\ QuizAbsent
  /\ MdxIdle /\ SectionAbsent /\ PostsAbsent /\ CounterAbsent
  /\ schema \in SUBSET Inputs
  /\ mail = NoMail
  /\ form = NoForm

\* the server action called with any input
CallSendEmail ==
  /\ \E data \in Inputs, response \in Responses :
       LET r == sendEmail(schema, data, response) IN
       mail' = [called |-> TRUE, data |-> data, sends |-> r.sends,
                response |-> r.response, outcome |-> r.outcome]
  /\ UNCHANGED <<schema, form>>
  /\ UNCHANGED <<vars, quizVars, mdxVars, sectionVars, postsVars,
                 counterVars>>

\* a submission of the form: handleSubmit validates the values with the
\* schema's resolver and calls onSubmit only when they pass
Submit ==
  /\ \E data \in Inputs, response \in Responses :
       IF safeParse(schema, data).error
       THEN /\ form' = [values |-> data, errors |-> TRUE,
                        toast |-> form.toast]
            /\ UNCHANGED mail
       ELSE LET r == sendEmail(schema, data, response) IN
            /\ mail' = [called |-> TRUE, data |-> data, sends |-> r.sends,
                        response |-> r.response, outcome |-> r.outcome]
            /\ form' = onSubmit(data, r.outcome)
  /\ UNCHANGED schema
  /\ UNCHANGED <<vars, quizVars, mdxVars, sectionVars, postsVars,
                 counterVars>>

MailNext ==
  \/ CallSendEmail
  \/ Submit

\* the contact form and direct calls of its server action
SpecMail == MailInit /\ [][MailNext]_allVars

\* C30: sendEmail never throws and returns one of two outcomes:
\* { success: true }, exactly when the input passed ContactFormSchema and
\* the mail provider resolved with data and no error, and otherwise an
\* object with an error field and no success; when validation fails the
\* mail provider is not called.
C30_SendEmailOutcome ==
  mail.called =>
    /\ ~mail.outcome.threw
    /\ mail.outcome.success # mail.outcome.hasError
    /\ mail.outcome.success <=>
         /\ mail.data \in schema
         /\ ~mail.response.threw
         /\ mail.response.data /\ ~mail.response.error
    /\ mail.data \notin schema => mail.sends = 0

\* C30 witness: sendEmail was called with an input the schema rejects and
\* returned an error without a send
C30_Witness ==
  /\ mail.called
  /\ mail.data \notin schema
  /\ mail.sends = 0
  /\ mail.outcome.hasError /\ ~mail.outcome.success
====
